---- MODULE Spec2Model ----
(***************************************************************************)
(* Omtobe MVP: the 7-day cycle client (frontend/src/api/mock-client.ts),   *)
(* the screen state machine of AppContent (frontend/src/App.tsx), the      *)
(* brake and reflection screens (components/), the HTTP client they call   *)
(* (api/client) and the demo context (contexts/DemoContext).  Times are    *)
(* milliseconds since the epoch.                                           *)
(***************************************************************************)
EXTENDS Integers, Sequences, FiniteSets, TLC

VARIABLES
    now,                 \* the wall clock (Date.now())
    ls_user_id,          \* localStorage 'omtobe_user_id' (NoUser when absent)
    ls_cycle_start,      \* localStorage 'omtobe_cycle_start' (NoTime when absent)
    ls_decisions,        \* localStorage 'omtobe_decisions'
    ls_reflections,      \* localStorage 'omtobe_reflections'
    userId,              \* OmtobeMockClient.userId
    cycleStartDate,      \* OmtobeMockClient.cycleStartDate
    lastBrakeTime,       \* OmtobeMockClient.lastBrakeTime
    coolingPeriodActive, \* OmtobeMockClient.coolingPeriodActive
    response,            \* what the call just made on the mock client resolved to
    httpUserId,          \* OmtobeAPIClient.userId (the client of the two screens)
    appState,            \* AppContent appState
    demoState,           \* DemoContext demoState
    delayTimers,         \* pending 20-minute re-check timeouts of handleBrakeDecision
    autoTimers,          \* number of pending 500 ms auto-trigger timeouts
    mindfulTimers,       \* number of pending 300 ms timeouts of handleMindfulIntervention
    isSubmitting,        \* BrakeScreen isSubmitting
    pendingDecisions,    \* recordDecision calls of BrakeScreen still in flight
    shownBy,             \* the path by which the displayed brake screen was put up
    checksInFlight       \* runs of checkState and re-checks that await the client

vars == << now, ls_user_id, ls_cycle_start, ls_decisions, ls_reflections,
           userId, cycleStartDate, lastBrakeTime, coolingPeriodActive,
           response, httpUserId, appState, demoState, delayTimers, autoTimers,
           mindfulTimers, isSubmitting, pendingDecisions, shownBy,
           checksInFlight >>

(***************************************************************************)
(* Program constants                                                       *)
(***************************************************************************)
MS_PER_DAY == 1000 * 60 * 60 * 24
COOLING_MS == 20 * 60 * 1000
RECHECK_DELAY_MS == 1200000
HRV_BASELINE_MEAN == 60

(***************************************************************************)
(* Bounds of the model                                                     *)
(***************************************************************************)
MaxAgeDays == 7        \* age in days of the cycle start found in localStorage
MaxDayTicks == 1       \* whole days the clock advances during a session
MaxStepTicks == 1      \* twenty-minute steps the clock advances within a day
MaxSkewMs == 1         \* milliseconds the clock advances inside one handler
MaxDecisions == 2      \* records in 'omtobe_decisions'
MaxReflections == 1    \* records in 'omtobe_reflections'
MaxTimers == 1         \* pending timeouts of each kind
MaxInflight == 1       \* recordDecision calls in flight
MaxInterventions == 1  \* decisions taken in a demo session
MaxChecks == 2         \* runs of checkState and re-checks awaiting the client

ClockStep == COOLING_MS
\* The page is loaded twenty minutes before 09:00 local time.
LoadTime == (MaxAgeDays + 1) * MS_PER_DAY + 9 * 60 * 60 * 1000 - ClockStep
NoTime == -1
NoUser == ""
\* No call on the mock client was made by the last step.
NoResponse == [op |-> "none"]

DecisionTypes == {"Proceed", "Delay"}
Responses == {"Yes", "No", "Skip"}
Screens == {"void", "brake", "reflection", "onboarding"}
\* Math.random() in hundredths, around the 0.3 threshold
RandomDraws == {29, 30}
\* Math.random() in hundredths for hrv_current = 45 + random * 15
HrvDraws == {20, 99}

\* A later reading of the clock inside the same synchronous handler.
Later(t) == {t} \cup (IF (t - LoadTime) % ClockStep < MaxSkewMs THEN {t + 1} ELSE {})

\* The n successive clock readings of a handler that starts at t.
RECURSIVE Reads(_, _)
Reads(t, n) ==
    IF n = 1 THEN {<< t >>}
    ELSE UNION {{<< t >> \o c : c \in Reads(u, n - 1)} : u \in Later(t)}

(***************************************************************************)
(* OmtobeMockClient                                                     *)
(***************************************************************************)
\* JavaScript's % (the result has the sign of the dividend)
JsRem(a, b) == IF a >= 0 THEN a % b ELSE 0 - ((0 - a) % b)

\* getCurrentDay without the wrap of the seven-day cycle.
getCurrentDay_NoWrap(t, start) == (t - start) \div MS_PER_DAY + 1

getCurrentDay(t, start) == JsRem((t - start) \div MS_PER_DAY, 7) + 1

PhaseOfDay(day) ==
    IF day <= 2 THEN "TOTAL_SILENCE"
    ELSE IF day <= 5 THEN "INTERVENTION_LOGIC"
    ELSE "REFLECTION"

getCurrentPhase(t, start) == PhaseOfDay(getCurrentDay(t, start))

\* The value checkBrakeScreen resolves to; t is the clock during the call,
\* r and h are its two Math.random() draws.  The two HRV fields are in
\* hundredths (4800 is 48.00).
checkBrakeScreenResult(t, r, h, start) ==
    LET day == getCurrentDay(t, start)
        phase == getCurrentPhase(t, start)
        shouldDisplay == (phase = "INTERVENTION_LOGIC") /\ (r < 30)
    IN [should_display |-> shouldDisplay,
        event_id |-> IF shouldDisplay THEN "mock_event_001" ELSE "",
        current_day |-> day,
        phase |-> phase,
        hrv_current |-> 4500 + h * 15,
        hrv_baseline_mean |-> HRV_BASELINE_MEAN * 100,
        timestamp |-> t]

\* The state change of checkBrakeScreen: lastBrakeTime (lbt) becomes the
\* reading tb when displaying; nothing else is written.
checkBrakeScreenEffect(res, tb, lbt) == IF res.should_display THEN tb ELSE lbt

\* The value recordDecision resolves to; t1 is the reading for the timestamp,
\* t2 the Date.now() of re_trigger_time.
recordDecisionResult(decisionType, t1, t2) ==
    [status |-> "decision_recorded",
     decision_type |-> decisionType,
     timestamp |-> t1,
     next_action |-> IF decisionType = "Delay" THEN "wait_20_mins"
                     ELSE "proceed_with_decision",
     has_re_trigger_time |-> (decisionType = "Delay"),
     re_trigger_time |-> IF decisionType = "Delay" THEN t2 + COOLING_MS ELSE NoTime]

\* A faulty recordDecision: the stored log is replaced by the new record.
recordDecisionEffect_Overwrite(decisionType, t1) ==
    /\ ls_decisions' = << [timestamp |-> t1, decision_type |-> decisionType] >>
    /\ UNCHANGED << ls_user_id, ls_cycle_start, ls_reflections, userId,
                    cycleStartDate, coolingPeriodActive >>

\* The state change of recordDecision: one record pushed to 'omtobe_decisions'.
recordDecisionEffect(decisionType, t1) ==
    /\ ls_decisions' = Append(ls_decisions,
                              [timestamp |-> t1, decision_type |-> decisionType])
    /\ UNCHANGED << ls_user_id, ls_cycle_start, ls_reflections, userId,
                    cycleStartDate, coolingPeriodActive >>

recordReflectionResult(answer, t1, t2) ==
    [status |-> "reflection_recorded",
     response |-> answer,
     timestamp |-> t1,
     reset_status |-> "cycle_reset_initiated",
     new_cycle_start |-> t2,
     current_day |-> 1]

\* A faulty recordReflection: "Skip" leaves the cycle running.
recordReflectionCycle_SkipKeeps(answer, t3, t4) ==
    [ls_cycle_start |-> IF answer = "Skip" THEN ls_cycle_start ELSE t3,
     cycleStartDate |-> IF answer = "Skip" THEN cycleStartDate ELSE t4,
     coolingPeriodActive |-> coolingPeriodActive]

\* The cycle state recordReflection leaves: the cycle start rewritten (t3
\* persisted, t4 in memory) whatever the answer; the cooling flag as it was.
recordReflectionCycle(answer, t3, t4) ==
    [ls_cycle_start |-> t3, cycleStartDate |-> t4,
     coolingPeriodActive |-> coolingPeriodActive]

\* The state change of recordReflection: one record pushed to
\* 'omtobe_reflections', then the cycle reset.
recordReflectionEffect(answer, t1, t3, t4) ==
    LET cycle == recordReflectionCycle(answer, t3, t4)
    IN /\ ls_reflections' = Append(ls_reflections,
                                   [timestamp |-> t1, response |-> answer])
       /\ ls_cycle_start' = cycle.ls_cycle_start
       /\ cycleStartDate' = cycle.cycleStartDate
       /\ coolingPeriodActive' = cycle.coolingPeriodActive
       /\ UNCHANGED << ls_user_id, ls_decisions, userId >>

\* The state field of the value getState resolves to.
getStateResult(t, start, cooling) ==
    [current_day |-> getCurrentDay(t, start),
     cycle_start_date |-> start,
     cooling_period_active |-> cooling,
     decision_locked |-> FALSE,
     phase |-> getCurrentPhase(t, start)]

(***************************************************************************)
(* DemoContext                                                             *)
(***************************************************************************)
initialHRV == [current |-> 50, baseline |-> 50, change |-> 0, status |-> "normal"]

initialState ==
    [isDemoMode |-> FALSE, currentDay |-> 1, phase |-> "Total Silence",
     hrv |-> initialHRV, activeEvents |-> << >>, interventionHistory |-> << >>]

\* The presets and event types the demo controls are clicked with.
HrvPresets == {"normal", "stressed", "critical"}
EventTypes == {"none", "board"}
\* The ages in days of the stored cycle start in a demo session (-1: none).
DemoAges == {-1, 3}

toggleDemoMode(prev) == [prev EXCEPT !.isDemoMode = ~prev.isDemoMode]

setHRV(prev, preset) ==
    LET baseline == 50
        hrv == CASE preset = "stressed" ->
                      [current |-> 45, baseline |-> baseline, change |-> -10,
                       status |-> "elevated"]
                 [] preset = "critical" ->
                      [current |-> 40, baseline |-> baseline, change |-> -20,
                       status |-> "critical"]
                 [] preset = "panic" ->
                      [current |-> 35, baseline |-> baseline, change |-> -30,
                       status |-> "critical"]
                 [] OTHER ->
                      [current |-> 50, baseline |-> baseline, change |-> 0,
                       status |-> "normal"]
    IN [prev EXCEPT !.hrv = hrv]

\* toLocaleTimeString with hour and minute: the minute of the day
HourMinute(t) == (t \div 60000) % 1440

setCalendarEvent(prev, eventType, t) ==
    LET startTime == HourMinute(t)
        endTime == HourMinute(t + 60 * 60 * 1000)
        event(id, title) == [id |-> id, title |-> title, startTime |-> startTime,
                             endTime |-> endTime, riskLevel |-> "high"]
        events == CASE eventType = "board" -> << event("1", "Board Meeting") >>
                    [] eventType = "negotiation" -> << event("2", "Contract Negotiation") >>
                    [] eventType = "highstakes" -> << event("3", "! High-Stakes Decision") >>
                    [] OTHER -> << >>
    IN [prev EXCEPT !.activeEvents = events]

addIntervention(prev, decision, t) ==
    LET intervention == [timestamp |-> t \div 1000, decision |-> decision,
                         outcome |-> IF decision = "Proceed" THEN "Completed"
                                     ELSE "Delayed"]
        all == << intervention >> \o prev.interventionHistory
    IN [prev EXCEPT !.interventionHistory =
            SubSeq(all, 1, IF Len(all) < 5 THEN Len(all) ELSE 5)]

setDay(prev, day) ==
    LET phase == IF day <= 2 THEN "Total Silence"
                 ELSE IF day <= 5 THEN "Intervention Logic"
                 ELSE IF day = 7 THEN "Reflection"
                 ELSE "Observation"
    IN [prev EXCEPT !.currentDay = day, !.phase = phase]

resetDemo(prev) == initialState

\* DemoControls: the class the 7-Day Timeline gives the button of a day.
timelineClass(day) ==
    IF day <= 2 THEN "phase-silence"
    ELSE IF day <= 5 THEN "phase-intervention"
    ELSE "phase-reflection"

(***************************************************************************)
(* AppContent: effects                                                     *)
(***************************************************************************)
\* One run of checkState whose closure saw the screen scr.  The set of its
\* possible outcomes, over the Math.random() draws of checkBrakeScreen; lbt
\* is the client's lastBrakeTime.
checkState(scr, app, t, lbt, start) ==
    {LET state == getStateResult(t, start, coolingPeriodActive)
         brakeCheck == checkBrakeScreenResult(t, r, h, start)
         show == brakeCheck.should_display /\ scr = "void"
     IN [app |-> [app EXCEPT !.currentDay = state.current_day,
                             !.phase = state.phase,
                             !.screen = IF show THEN "brake" ELSE @],
         lastBrakeTime |-> checkBrakeScreenEffect(brakeCheck, t, lbt),
         shown |-> show]
     : r \in RandomDraws, h \in HrvDraws}

\* The monitoring effect runs checkState at once; when that changes the
\* screen the effect is set up again and runs checkState once more.
monitoringEffect(app, t, lbt, start) ==
    UNION {IF o.app.screen # app.screen
           THEN {[o2 EXCEPT !.shown = TRUE] :
                    o2 \in checkState(o.app.screen, o.app, t, o.lastBrakeTime, start)}
           ELSE {o}
           : o \in checkState(app.screen, app, t, lbt, start)}

\* The calls of checkState on the client; either can be rejected (the HTTP
\* client throws on a failed request and without a user id).
CheckStateCalls == {"getState", "checkBrakeScreen"}

\* A run of checkState that shows the brake screen from its catch branch.
checkStateFailed_ShowsBrake(app, failed, t, start) ==
    [app EXCEPT !.screen = "brake"]

\* The app state after a run of checkState in which the call failed is
\* rejected: the catch branch logs the error, and what was set before the
\* rejected call stays.
checkStateFailed(app, failed, t, start) ==
    LET state == getStateResult(t, start, coolingPeriodActive)
    IN IF failed = "getState" THEN app
       ELSE [app EXCEPT !.currentDay = state.current_day, !.phase = state.phase]

monitoringOn(app, demo) ==
    ~(app.userId = NoUser \/ app.screen = "onboarding" \/ demo.isDemoMode)

autoTriggerCondition(app, demo) ==
    /\ demo.isDemoMode
    /\ demo.hrv.change <= -20
    /\ Len(demo.activeEvents) > 0
    /\ demo.currentDay >= 3
    /\ demo.currentDay <= 5
    /\ app.screen = "void"

autoTriggerDeps(app, demo) ==
    << demo.isDemoMode, demo.hrv.change, Len(demo.activeEvents), demo.currentDay,
       app.screen >>

syncDeps(demo) == << demo.isDemoMode, demo.currentDay, demo.phase >>

monitoringDeps(app, demo) == << app.userId, app.screen, demo.isDemoMode >>

\* The app state after the "sync demo state" effect.
syncEffect(app0, demo0, app1, demo1, mount) ==
    IF demo1.isDemoMode /\ (mount \/ syncDeps(demo0) # syncDeps(demo1))
    THEN [app1 EXCEPT !.currentDay = demo1.currentDay, !.phase = demo1.phase]
    ELSE app1

\* Does the auto-trigger effect set its 500 ms timeout after this render?
autoTriggerEffect(app0, demo0, app1, demo1, mount) ==
    /\ mount \/ autoTriggerDeps(app0, demo0) # autoTriggerDeps(app1, demo1)
    /\ autoTriggerCondition(app1, demo1)

\* The outcomes of the effects that follow a render in which a handler took
\* the state from (app0, demo0) to (app1, demo1); lbt is the client's
\* lastBrakeTime at that point.
Render(app0, demo0, app1, demo1, mount, t, lbt, start) ==
    LET synced == syncEffect(app0, demo0, app1, demo1, mount)
    IN IF /\ mount \/ monitoringDeps(app0, demo0) # monitoringDeps(app1, demo1)
          /\ monitoringOn(app1, demo1)
       THEN monitoringEffect(synced, t, lbt, start)
       ELSE {[app |-> synced, lastBrakeTime |-> lbt, shown |-> FALSE]}

\* The pending recordDecision calls of a brake screen that is taken down
\* belong to an unmounted component.
Unmounted(pending) == [i \in 1..Len(pending) |-> [pending[i] EXCEPT !.live = FALSE]]

\* initApp has set the user.
mounted == appState.userId # NoUser

\* What no handler of the app writes: localStorage and the fields of the
\* clients other than lastBrakeTime.
AppKeeps ==
    UNCHANGED << now, ls_user_id, ls_cycle_start, ls_decisions, ls_reflections,
                 userId, cycleStartDate, coolingPeriodActive, httpUserId,
                 checksInFlight >>

\* A handler that ends no call of a screen on the HTTP client leaves nothing
\* to report.
AppFrame ==
    /\ response' = NoResponse
    /\ AppKeeps

\* The common end of every handler: the state after the effects.  o: an
\* outcome of Render; fired: auto-trigger timeouts that just fired; sub:
\* isSubmitting as the handler leaves it; how: the way the handler itself
\* puts up the brake screen; resp: what the step reports of the call of a
\* screen that it ends.
CommitAs(o, demo0, demo1, app1, fired, sub, pending, how, resp) ==
    LET sched == autoTriggerEffect(appState, demo0, app1, demo1, ~mounted)
    IN /\ sched => autoTimers - fired < MaxTimers
       /\ appState' = o.app
       /\ demoState' = demo1
       /\ lastBrakeTime' = o.lastBrakeTime
       /\ autoTimers' = autoTimers - fired + (IF sched THEN 1 ELSE 0)
       /\ isSubmitting' = (sub /\ appState.screen = "brake" /\ o.app.screen = "brake")
       /\ pendingDecisions' = IF appState.screen = "brake" /\ o.app.screen # "brake"
                              THEN Unmounted(pending) ELSE pending
       /\ shownBy' = IF o.app.screen # "brake" THEN "none"
                     ELSE IF o.shown THEN "poll"
                     ELSE IF appState.screen # "brake" THEN how
                     ELSE shownBy
       /\ response' = resp
       /\ AppKeeps

Commit(o, demo0, demo1, app1, fired, sub, pending, how) ==
    CommitAs(o, demo0, demo1, app1, fired, sub, pending, how, NoResponse)

\* A handler that takes the React state to (app1, demo1) and reports resp.
HandlerAs(app1, demo1, fired, sub, pending, how, resp) ==
    \E o \in Render(appState, demoState, app1, demo1, ~mounted, now,
                    lastBrakeTime, cycleStartDate) :
       CommitAs(o, demoState, demo1, app1, fired, sub, pending, how, resp)

\* A handler that takes the React state to (app1, demo1).
Handler(app1, demo1, fired, sub, pending, how) ==
    HandlerAs(app1, demo1, fired, sub, pending, how, NoResponse)

\* A handler that sets no timeout of its own.
UiStep(app1, demo1, fired, sub, pending, how) ==
    /\ Handler(app1, demo1, fired, sub, pending, how)
    /\ UNCHANGED << delayTimers, mindfulTimers >>

(***************************************************************************)
(* Initial state: the module is loaded and AppContent rendered once        *)
(***************************************************************************)
\* The page is loaded in a browser whose localStorage is in ages: k days
\* after the cycle start it holds, or without user and cycle start (k < 0).
Load(ages) ==
    /\ now = LoadTime
    /\ \E k \in ages :
          /\ ls_user_id = IF k < 0 THEN NoUser ELSE "user_1"
          /\ ls_cycle_start = IF k < 0 THEN NoTime ELSE LoadTime - k * MS_PER_DAY
    /\ ls_decisions = << >>
    /\ ls_reflections = << >>
    /\ userId = ls_user_id
    /\ cycleStartDate = IF ls_cycle_start # NoTime THEN ls_cycle_start ELSE now
    /\ lastBrakeTime = 0
    /\ coolingPeriodActive = FALSE
    /\ response = NoResponse
    /\ httpUserId = ls_user_id
    /\ appState = [screen |-> "void", userId |-> NoUser, currentDay |-> 1,
                   phase |-> "Total Silence"]
    /\ demoState = initialState
    /\ delayTimers = << >>
    /\ autoTimers = 0
    /\ mindfulTimers = 0
    /\ isSubmitting = FALSE
    /\ pendingDecisions = << >>
    /\ shownBy = "none"
    /\ checksInFlight = << >>

Init == Load(-1..MaxAgeDays)

InitDemo == Load(DemoAges)

(***************************************************************************)
(* The clock                                                               *)
(***************************************************************************)
\* What the passing of time leaves alone.
ClockFrame ==
    /\ response' = NoResponse
    /\ UNCHANGED << ls_user_id, ls_cycle_start, ls_decisions, ls_reflections,
                    userId, cycleStartDate, lastBrakeTime, coolingPeriodActive,
                    httpUserId, appState, demoState, delayTimers, autoTimers,
                    mindfulTimers, isSubmitting, pendingDecisions, shownBy,
                    checksInFlight >>

\* Twenty minutes pass; the sub-second timeouts have fired before.
Tick ==
    /\ autoTimers = 0
    /\ mindfulTimers = 0
    /\ (now - LoadTime) % MS_PER_DAY < MaxStepTicks * ClockStep
    /\ \A i \in 1..Len(delayTimers) : now + ClockStep <= delayTimers[i].due
    /\ now' = now + ClockStep
    /\ ClockFrame

\* A day passes.
NextDay ==
    /\ autoTimers = 0
    /\ mindfulTimers = 0
    /\ (now - LoadTime) \div MS_PER_DAY < MaxDayTicks
    /\ delayTimers = << >>
    /\ now' = now + MS_PER_DAY
    /\ ClockFrame

\* The clock reaches the time at which the oldest 20-minute timeout is due.
TickToTimer ==
    /\ autoTimers = 0
    /\ mindfulTimers = 0
    /\ delayTimers # << >>
    /\ now < delayTimers[1].due
    /\ (delayTimers[1].due - LoadTime) % MS_PER_DAY <= MaxStepTicks * ClockStep
    /\ now' = delayTimers[1].due
    /\ ClockFrame

(***************************************************************************)
(* OmtobeMockClient: the calls of its interface                            *)
(***************************************************************************)
\* What a call on the mock client leaves alone: the app.
ClientFrame ==
    UNCHANGED << httpUserId, appState, demoState, delayTimers, autoTimers,
                 mindfulTimers, isSubmitting, pendingDecisions, shownBy,
                 checksInFlight >>

\* setUserId, as createUser calls it: c[1] is the reading persisted, c[2]
\* the one kept in memory.
setUserId(u, c) ==
    /\ userId' = u
    /\ ls_user_id' = u
    /\ ls_cycle_start' = c[1]
    /\ cycleStartDate' = c[2]

\* createUser is called by the onboarding form alone, and getState by the
\* polls of the app.
createUser ==
    /\ \E c \in Reads(now, 3) :
          /\ setUserId("user_1", c)
          /\ response' = [op |-> "createUser",
                          value |-> [status |-> "user_created", user_id |-> "user_1",
                                     timestamp |-> c[3]]]
          /\ now' = c[3]
    /\ UNCHANGED << ls_decisions, ls_reflections, lastBrakeTime,
                    coolingPeriodActive >>
    /\ ClientFrame

checkBrakeScreen ==
    /\ \E r \in RandomDraws, h \in HrvDraws :
          LET res == checkBrakeScreenResult(now, r, h, cycleStartDate)
          IN /\ lastBrakeTime' = checkBrakeScreenEffect(res, now, lastBrakeTime)
             /\ response' = [op |-> "checkBrakeScreen", value |-> res]
    /\ UNCHANGED << now, ls_user_id, ls_cycle_start, ls_decisions, ls_reflections,
                    userId, cycleStartDate, coolingPeriodActive >>
    /\ ClientFrame

recordDecision ==
    /\ Len(ls_decisions) < MaxDecisions
    /\ \E decisionType \in DecisionTypes : \E c \in Reads(now, 2) :
          /\ recordDecisionEffect(decisionType, c[1])
          /\ response' = [op |-> "recordDecision",
                          value |-> recordDecisionResult(decisionType, c[1], c[2])]
          /\ now' = IF decisionType = "Delay" THEN c[2] ELSE c[1]
    /\ UNCHANGED lastBrakeTime
    /\ ClientFrame

recordReflection ==
    /\ Len(ls_reflections) < MaxReflections
    /\ \E answer \in Responses : \E c \in Reads(now, 4) :
          /\ recordReflectionEffect(answer, c[1], c[3], c[4])
          /\ response' = [op |-> "recordReflection",
                          value |-> recordReflectionResult(answer, c[1], c[2])]
          /\ now' = c[4]
    /\ UNCHANGED lastBrakeTime
    /\ ClientFrame

getState ==
    /\ response' = [op |-> "getState",
                    value |-> getStateResult(now, cycleStartDate, coolingPeriodActive)]
    /\ UNCHANGED << now, ls_user_id, ls_cycle_start, ls_decisions, ls_reflections,
                    userId, cycleStartDate, lastBrakeTime, coolingPeriodActive >>
    /\ ClientFrame

(***************************************************************************)
(* AppContent: handlers and timers                                         *)
(***************************************************************************)
\* The mount effects: initApp sets the user and the void screen.
initApp ==
    /\ ~mounted
    /\ UiStep([appState EXCEPT
                  !.userId = IF ls_user_id # NoUser THEN ls_user_id ELSE "guest_user",
                  !.screen = "void"],
              demoState, 0, FALSE, pendingDecisions, "none")

\* The 60 s interval of the monitoring effect calls checkState.
Poll ==
    /\ mounted
    /\ monitoringOn(appState, demoState)
    /\ \E o \in monitoringEffect(appState, now, lastBrakeTime, cycleStartDate) :
          Commit(o, demoState, demoState, appState, 0, isSubmitting,
                 pendingDecisions, "none")
    /\ UNCHANGED << delayTimers, mindfulTimers >>

\* A run of checkState by the 60 s interval in which a call on the client is
\* rejected.
PollFails ==
    /\ mounted
    /\ monitoringOn(appState, demoState)
    /\ \E failed \in CheckStateCalls :
          /\ appState' = checkStateFailed(appState, failed, now, cycleStartDate)
          /\ response' = [op |-> "checkState", rejected |-> failed]
    /\ UNCHANGED << now, ls_user_id, ls_cycle_start, ls_decisions, ls_reflections,
                    userId, cycleStartDate, lastBrakeTime, coolingPeriodActive,
                    httpUserId, demoState, delayTimers, autoTimers, mindfulTimers,
                    isSubmitting, pendingDecisions, shownBy,
                    checksInFlight >>

\* The 60 s interval of the reflection effect calls checkReflection.
checkReflection ==
    /\ mounted
    /\ monitoringOn(appState, demoState)
    /\ LET state == getStateResult(now, cycleStartDate, coolingPeriodActive)
           inWindow == HourMinute(now) \div 60 = 9 /\ HourMinute(now) % 60 < 5
       IN /\ state.current_day = 7
          /\ inWindow
          /\ UiStep([appState EXCEPT !.screen = "reflection"], demoState, 0,
                    isSubmitting, pendingDecisions, "none")

\* handleClick without setIsSubmitting(true): the request is sent and the
\* buttons stay enabled.
BrakeSubmit_NoDisable ==
    /\ mounted
    /\ appState.screen = "brake"
    /\ ~isSubmitting
    /\ Len(pendingDecisions) < MaxInflight
    /\ \E d \in DecisionTypes :
          UiStep(appState, demoState, 0, FALSE,
                 Append(pendingDecisions,
                        [decision |-> d, seen |-> appState.screen, live |-> TRUE]),
                 "none")

\* BrakeScreen handleClick up to the await: the request is sent.
BrakeSubmit ==
    /\ mounted
    /\ appState.screen = "brake"
    /\ ~isSubmitting
    /\ Len(pendingDecisions) < MaxInflight
    /\ \E d \in DecisionTypes :
          UiStep(appState, demoState, 0, TRUE,
                 Append(pendingDecisions,
                        [decision |-> d, seen |-> appState.screen, live |-> TRUE]),
                 "none")

\* handleClick whose catch branch leaves the buttons disabled.
handleClickFailed_StaysDisabled(p, sub) == sub

\* isSubmitting of the brake screen on display after the catch branch of
\* handleClick for the click p: setIsSubmitting(false) acts on the component
\* of the click, which may be gone.
handleClickFailed(p, sub) == IF p.live THEN FALSE ELSE sub

\* The pending calls without the i-th.
Without(pending, i) ==
    [j \in 1..(Len(pending) - 1) |-> IF j < i THEN pending[j] ELSE pending[j + 1]]

\* handleBrakeDecision for the click p, whose closure saw the screen p.seen;
\* i is the position of p among the pending calls.
handleBrakeDecision(p, i) ==
    LET demo1 == IF demoState.isDemoMode
                 THEN addIntervention(demoState, p.decision, now)
                 ELSE demoState
    IN /\ p.decision = "Delay" => Len(delayTimers) < MaxTimers
       /\ Len(demo1.interventionHistory) <= MaxInterventions
       /\ delayTimers' = IF p.decision = "Delay"
                         THEN Append(delayTimers,
                                     [due |-> now + RECHECK_DELAY_MS, seen |-> p.seen])
                         ELSE delayTimers
       /\ HandlerAs([appState EXCEPT !.screen = "void"], demo1, 0, FALSE,
                    Unmounted(Without(pendingDecisions, i)), "none",
                    [op |-> "onDecision", decision |-> p.decision])
       /\ UNCHANGED mindfulTimers

\* The request of a brake-screen click succeeds: recordDecision of the HTTP
\* client resolves, then onDecision runs.
BrakeResolve ==
    /\ httpUserId # NoUser
    /\ \E i \in 1..Len(pendingDecisions) :
          handleBrakeDecision(pendingDecisions[i], i)

\* The request of a brake-screen click fails ('User ID not set', or the
\* request itself): the catch branch of handleClick.
BrakeReject ==
    /\ \E i \in 1..Len(pendingDecisions) :
          HandlerAs(appState, demoState, 0,
                    handleClickFailed(pendingDecisions[i], isSubmitting),
                    Without(pendingDecisions, i), "none",
                    [op |-> "handleClick", rejected |-> pendingDecisions[i]])
    /\ UNCHANGED << delayTimers, mindfulTimers >>

\* A 20-minute timeout of handleBrakeDecision fires.
DelayRecheck ==
    /\ delayTimers # << >>
    /\ delayTimers[1].due <= now
    /\ \E r \in RandomDraws, h \in HrvDraws :
          LET res == checkBrakeScreenResult(now, r, h, cycleStartDate)
              lbt == checkBrakeScreenEffect(res, now, lastBrakeTime)
              show == res.should_display /\ delayTimers[1].seen = "void"
              app1 == IF show THEN [appState EXCEPT !.screen = "brake"] ELSE appState
          IN \E o \in Render(appState, demoState, app1, demoState, FALSE, now,
                             lbt, cycleStartDate) :
                Commit(o, demoState, demoState, app1, 0, isSubmitting,
                       pendingDecisions, "recheck")
    /\ delayTimers' = Tail(delayTimers)
    /\ UNCHANGED mindfulTimers

\* A 500 ms timeout of the auto-trigger effect fires.
AutoTrigger ==
    /\ autoTimers > 0
    /\ UiStep([appState EXCEPT !.screen = "brake"], demoState, 1, isSubmitting,
              pendingDecisions, "auto")

\* The "Brake" button of the void screen outside demo mode (onTestBrake).
onTestBrake ==
    /\ mounted
    /\ appState.screen = "void"
    /\ ~demoState.isDemoMode
    /\ UiStep([appState EXCEPT !.screen = "brake"], demoState, 0, FALSE,
              pendingDecisions, "manual")

\* The "Reflection" button of the void screen outside demo mode.
onTestReflection ==
    /\ mounted
    /\ appState.screen = "void"
    /\ ~demoState.isDemoMode
    /\ UiStep([appState EXCEPT !.screen = "reflection"], demoState, 0, FALSE,
              pendingDecisions, "none")

\* The "Trigger Brake" button of DemoControls.
onTriggerBrake ==
    /\ mounted
    /\ demoState.isDemoMode
    /\ appState.screen # "brake"
    /\ UiStep([appState EXCEPT !.screen = "brake"], demoState, 0, FALSE,
              pendingDecisions, "manual")

\* The "Trigger Reflection" button of DemoControls.
onTriggerReflection ==
    /\ mounted
    /\ demoState.isDemoMode
    /\ appState.screen # "reflection"
    /\ UiStep([appState EXCEPT !.screen = "reflection"], demoState, 0, FALSE,
              pendingDecisions, "none")

\* The energy ring of the void screen: handleMindfulIntervention.
handleMindfulIntervention ==
    /\ mounted
    /\ appState.screen = "void"
    /\ mindfulTimers < MaxTimers
    /\ LET panic == setCalendarEvent(setHRV(demoState, "panic"), "board", now)
           demo1 == IF demoState.currentDay < 3 \/ demoState.currentDay > 5
                    THEN setDay(panic, 3) ELSE panic
       IN Handler(appState, demo1, 0, FALSE, pendingDecisions, "none")
    /\ mindfulTimers' = mindfulTimers + 1
    /\ UNCHANGED delayTimers

\* The 300 ms timeout of handleMindfulIntervention fires.
MindfulTrigger ==
    /\ mindfulTimers > 0
    /\ Handler([appState EXCEPT !.screen = "brake"], demoState, 0, isSubmitting,
               pendingDecisions, "manual")
    /\ mindfulTimers' = mindfulTimers - 1
    /\ UNCHANGED delayTimers

\* ReflectionScreen handleClick when recordReflection of the HTTP client
\* resolves: handleReflection.
ReflectionClick ==
    /\ mounted
    /\ appState.screen = "reflection"
    /\ httpUserId # NoUser
    /\ UiStep([appState EXCEPT !.screen = "void", !.currentDay = 1],
              IF demoState.isDemoMode THEN setDay(demoState, 1) ELSE demoState,
              0, FALSE, pendingDecisions, "none")

(***************************************************************************)
(* ModeToggle and DemoControls                                             *)
(***************************************************************************)
DemoStep(demo1) ==
    UiStep(appState, demo1, 0, isSubmitting, pendingDecisions, "none")

ModeToggle ==
    /\ mounted
    /\ DemoStep(toggleDemoMode(demoState))

HrvButton ==
    /\ mounted
    /\ demoState.isDemoMode
    /\ \E preset \in HrvPresets : DemoStep(setHRV(demoState, preset))

EventButton ==
    /\ mounted
    /\ demoState.isDemoMode
    /\ \E eventType \in EventTypes :
          DemoStep(setCalendarEvent(demoState, eventType, now))

\* The seven buttons of the timeline, and "Jump to Day 7".
DayButton ==
    /\ mounted
    /\ demoState.isDemoMode
    /\ \E day \in 1..7 : DemoStep(setDay(demoState, day))

\* "Reset Demo": setDay(1) and resetDemo() in one click.
ResetButton ==
    /\ mounted
    /\ demoState.isDemoMode
    /\ HandlerAs(appState, resetDemo(setDay(demoState, 1)), 0, isSubmitting,
                 pendingDecisions, "none", [op |-> "resetDemo"])
    /\ UNCHANGED << delayTimers, mindfulTimers >>

(***************************************************************************)
(* Specifications                                                          *)
(***************************************************************************)
\* The mock client alone, called through its interface.
NextClient ==
    \/ Tick
    \/ checkBrakeScreen
    \/ recordDecision
    \/ recordReflection

SpecClient == Init /\ [][NextClient]_vars

\* A session in production mode: the mode toggle is left alone.
Next ==
    \/ Tick
    \/ NextDay
    \/ TickToTimer
    \/ initApp
    \/ Poll
    \/ PollFails
    \/ checkReflection
    \/ BrakeSubmit
    \/ BrakeResolve
    \/ BrakeReject
    \/ DelayRecheck
    \/ onTestBrake
    \/ onTestReflection
    \/ ReflectionClick
    \/ handleMindfulIntervention
    \/ MindfulTrigger

Spec == Init /\ [][Next]_vars

\* A session with the mode toggle and the demo controls, within the hour of
\* the page load; the energy ring is left alone.
NextDemo ==
    \/ TickToTimer
    \/ initApp
    \/ ModeToggle
    \/ HrvButton
    \/ EventButton
    \/ DayButton
    \/ ResetButton
    \/ AutoTrigger
    \/ onTriggerBrake
    \/ onTriggerReflection
    \/ BrakeSubmit
    \/ BrakeResolve
    \/ BrakeReject
    \/ DelayRecheck
    \/ ReflectionClick

SpecDemo == InitDemo /\ [][NextDemo]_vars

(***************************************************************************)
(* App of v0.1: initialisation and onboarding                              *)
(***************************************************************************)
\* The end of a v0.1 handler: o is an outcome of the monitoring effect.
App_Commit(o) ==
    /\ appState' = o.app
    /\ lastBrakeTime' = o.lastBrakeTime
    /\ shownBy' = IF o.shown THEN "poll" ELSE "none"

\* What the v0.1 initialisation and onboarding leave alone.
App_Frame ==
    /\ response' = NoResponse
    /\ UNCHANGED << ls_decisions, ls_reflections, coolingPeriodActive, httpUserId,
                    demoState, delayTimers, autoTimers, mindfulTimers,
                    isSubmitting, pendingDecisions, checksInFlight >>

\* The mount effect of v0.1: with a stored user initApp calls setUserId on
\* the mock client and shows the void screen, and the monitoring effect runs
\* checkState; without one it shows the onboarding form.
App_initApp ==
    /\ appState.userId = NoUser
    /\ appState.screen = "void"
    /\ IF ls_user_id # NoUser
       THEN \E c \in Reads(now, 2) :
               /\ setUserId(ls_user_id, c)
               /\ now' = c[2]
               /\ \E o \in monitoringEffect(
                              [appState EXCEPT !.userId = ls_user_id, !.screen = "void"],
                              c[2], lastBrakeTime, c[2]) : App_Commit(o)
       ELSE /\ appState' = [appState EXCEPT !.screen = "onboarding"]
            /\ UNCHANGED << now, userId, ls_user_id, ls_cycle_start, cycleStartDate,
                            lastBrakeTime, shownBy >>
    /\ App_Frame

\* The onboarding form is submitted: handleOnboarding up to its timeout,
\* createUser on the mock client.
App_handleOnboarding ==
    /\ appState.screen = "onboarding"
    /\ userId = NoUser
    /\ \E c \in Reads(now, 3) :
          /\ setUserId("user_1", c)
          /\ now' = c[3]
    /\ UNCHANGED << appState, lastBrakeTime, shownBy >>
    /\ App_Frame

\* The 500 ms timeout of handleOnboarding fires: the user is set, the void
\* screen shown, and the monitoring effect runs checkState.
App_onboardingTimeout ==
    /\ appState.screen = "onboarding"
    /\ userId # NoUser
    /\ \E o \in monitoringEffect([appState EXCEPT !.userId = userId, !.screen = "void"],
                                 now, lastBrakeTime, cycleStartDate) : App_Commit(o)
    /\ UNCHANGED << now, userId, ls_user_id, ls_cycle_start, cycleStartDate >>
    /\ App_Frame

\* The v0.1 App from its load on: its polls are those of AppContent outside
\* demo mode.
NextV01 ==
    \/ Tick
    \/ NextDay
    \/ App_initApp
    \/ App_handleOnboarding
    \/ App_onboardingTimeout
    \/ Poll

SpecV01 == Init /\ [][NextV01]_vars

(***************************************************************************)
(* The mock client loaded after the clock was set back                     *)
(***************************************************************************)
\* How far ahead of the clock the stored cycle start is at load.
ClockSetBacks == {1, MS_PER_DAY, 3 * MS_PER_DAY + 1, 7 * MS_PER_DAY}

\* The page is loaded in a browser whose localStorage holds a user and a
\* cycle start written before the clock was set back: the constructor takes
\* the stored start as it is.
InitSkew ==
    /\ now = LoadTime
    /\ \E ahead \in ClockSetBacks : ls_cycle_start = LoadTime + ahead
    /\ ls_user_id = "user_1"
    /\ ls_decisions = << >>
    /\ ls_reflections = << >>
    /\ userId = ls_user_id
    /\ cycleStartDate = ls_cycle_start
    /\ lastBrakeTime = 0
    /\ coolingPeriodActive = FALSE
    /\ response = NoResponse
    /\ httpUserId = ls_user_id
    /\ appState = [screen |-> "void", userId |-> NoUser, currentDay |-> 1,
                   phase |-> "Total Silence"]
    /\ demoState = initialState
    /\ delayTimers = << >>
    /\ autoTimers = 0
    /\ mindfulTimers = 0
    /\ isSubmitting = FALSE
    /\ pendingDecisions = << >>
    /\ shownBy = "none"
    /\ checksInFlight = << >>

SpecSkew == InitSkew /\ [][NextClient]_vars

(***************************************************************************)
(* The page is reloaded                                                    *)
(***************************************************************************)
\* A reload evaluates the modules again: both clients are constructed from
\* localStorage, the React state is the initial one, and every timeout and
\* request of the page that was left is gone.
Reload ==
    /\ userId' = ls_user_id
    /\ cycleStartDate' = IF ls_cycle_start # NoTime THEN ls_cycle_start ELSE now
    /\ lastBrakeTime' = 0
    /\ coolingPeriodActive' = FALSE
    /\ httpUserId' = ls_user_id
    /\ response' = [op |-> "constructor"]
    /\ appState' = [screen |-> "void", userId |-> NoUser, currentDay |-> 1,
                    phase |-> "Total Silence"]
    /\ demoState' = initialState
    /\ delayTimers' = << >>
    /\ autoTimers' = 0
    /\ mindfulTimers' = 0
    /\ isSubmitting' = FALSE
    /\ pendingDecisions' = << >>
    /\ shownBy' = "none"
    /\ checksInFlight' = << >>
    /\ UNCHANGED << now, ls_user_id, ls_cycle_start, ls_decisions, ls_reflections >>

\* The calls on the mock client, with reloads of the page between them.
NextRestart ==
    \/ NextClient
    \/ Reload

SpecRestart == Init /\ [][NextRestart]_vars

(***************************************************************************)
(* AppContent outside demo mode, its checks step by step                   *)
(***************************************************************************)
\* The methods of the mock client are async functions that await nothing:
\* the promise of a call is settled when the call returns, and the code
\* that awaits it goes on in a microtask, before any timer, interval or
\* click is served.
settlesInMicrotask_OverNetwork == FALSE

settlesInMicrotask == TRUE

\* A task of the event loop (a timer, an interval, a click) starts only
\* when no microtask is waiting.
TaskMayStart == settlesInMicrotask => checksInFlight = << >>

\* checkState is called by a closure that saw the screen scr.
StartCheck(checks, scr) ==
    Append(checks, [kind |-> "checkState", stage |-> "getState", seen |-> scr])

\* What the steps of a check leave alone.
PollsFrame ==
    /\ response' = NoResponse
    /\ UNCHANGED << now, ls_user_id, ls_cycle_start, ls_decisions, ls_reflections,
                    userId, cycleStartDate, coolingPeriodActive, httpUserId,
                    demoState, autoTimers, mindfulTimers >>

\* The mount effects: initApp sets the user and the void screen, and the
\* monitoring effect calls checkState.
initAppThenCheck ==
    /\ ~mounted
    /\ checksInFlight = << >>
    /\ appState' = [appState EXCEPT
                       !.userId = IF ls_user_id # NoUser THEN ls_user_id
                                  ELSE "guest_user",
                       !.screen = "void"]
    /\ checksInFlight' = StartCheck(checksInFlight, "void")
    /\ UNCHANGED << lastBrakeTime, delayTimers, isSubmitting, pendingDecisions,
                    shownBy >>
    /\ PollsFrame

\* The 60 s interval of the monitoring effect calls checkState.
intervalCheck ==
    /\ mounted
    /\ monitoringOn(appState, demoState)
    /\ TaskMayStart
    /\ Len(checksInFlight) < MaxChecks
    /\ checksInFlight' = StartCheck(checksInFlight, appState.screen)
    /\ UNCHANGED << appState, lastBrakeTime, delayTimers, isSubmitting,
                    pendingDecisions, shownBy >>
    /\ PollsFrame

\* checkState goes on after await apiClient.getState().
getStateSettles ==
    /\ \E i \in 1..Len(checksInFlight) :
          /\ checksInFlight[i].stage = "getState"
          /\ LET state == getStateResult(now, cycleStartDate, coolingPeriodActive)
             IN appState' = [appState EXCEPT !.currentDay = state.current_day,
                                             !.phase = state.phase]
          /\ checksInFlight' = [checksInFlight EXCEPT ![i].stage = "checkBrakeScreen"]
    /\ UNCHANGED << lastBrakeTime, delayTimers, isSubmitting, pendingDecisions,
                    shownBy >>
    /\ PollsFrame

\* checkState, or the delayed re-check, goes on after
\* apiClient.checkBrakeScreen(); when the screen changes the monitoring
\* effect is set up again and calls checkState.
checkBrakeScreenSettles ==
    /\ \E i \in 1..Len(checksInFlight) : \E r \in RandomDraws, h \in HrvDraws :
          LET check == checksInFlight[i]
              res == checkBrakeScreenResult(now, r, h, cycleStartDate)
              show == res.should_display /\ check.seen = "void"
              changes == show /\ appState.screen # "brake"
              rest == Without(checksInFlight, i)
          IN /\ check.stage = "checkBrakeScreen"
             /\ lastBrakeTime' = checkBrakeScreenEffect(res, now, lastBrakeTime)
             /\ appState' = IF show THEN [appState EXCEPT !.screen = "brake"]
                            ELSE appState
             /\ checksInFlight' = IF changes THEN StartCheck(rest, "brake") ELSE rest
             /\ shownBy' = IF ~changes THEN shownBy
                           ELSE IF check.kind = "checkState" THEN "poll"
                           ELSE "recheck"
    /\ UNCHANGED << delayTimers, isSubmitting, pendingDecisions >>
    /\ PollsFrame

\* recordDecision of a brake-screen click resolves and onDecision runs:
\* handleBrakeDecision; the screen changes, so the monitoring effect calls
\* checkState.
handleBrakeDecisionThenCheck ==
    /\ httpUserId # NoUser
    /\ TaskMayStart
    /\ Len(checksInFlight) < MaxChecks
    /\ \E i \in 1..Len(pendingDecisions) :
          LET p == pendingDecisions[i]
          IN /\ p.decision = "Delay" => Len(delayTimers) < MaxTimers
             /\ delayTimers' = IF p.decision = "Delay"
                               THEN Append(delayTimers,
                                           [due |-> now + RECHECK_DELAY_MS,
                                            seen |-> p.seen])
                               ELSE delayTimers
             /\ pendingDecisions' = Unmounted(Without(pendingDecisions, i))
    /\ appState' = [appState EXCEPT !.screen = "void"]
    /\ checksInFlight' = IF appState.screen # "void"
                         THEN StartCheck(checksInFlight, "void")
                         ELSE checksInFlight
    /\ isSubmitting' = FALSE
    /\ shownBy' = "none"
    /\ UNCHANGED lastBrakeTime
    /\ PollsFrame

\* A 20-minute timeout of handleBrakeDecision fires and calls
\* checkBrakeScreen.
delayTimeout ==
    /\ delayTimers # << >>
    /\ delayTimers[1].due <= now
    /\ TaskMayStart
    /\ Len(checksInFlight) < MaxChecks
    /\ checksInFlight' = Append(checksInFlight,
                                [kind |-> "recheck", stage |-> "checkBrakeScreen",
                                 seen |-> delayTimers[1].seen])
    /\ delayTimers' = Tail(delayTimers)
    /\ UNCHANGED << appState, lastBrakeTime, isSubmitting, pendingDecisions, shownBy >>
    /\ PollsFrame

\* Time passes between tasks.
TickBetweenTasks == TaskMayStart /\ Tick

TickToTimerBetweenTasks == TaskMayStart /\ TickToTimer

\* A click on a button of the brake screen is a task.
BrakeSubmitTask == TaskMayStart /\ BrakeSubmit

NextPolls ==
    \/ TickBetweenTasks
    \/ TickToTimerBetweenTasks
    \/ initAppThenCheck
    \/ intervalCheck
    \/ getStateSettles
    \/ checkBrakeScreenSettles
    \/ BrakeSubmitTask
    \/ handleBrakeDecisionThenCheck
    \/ delayTimeout

SpecPolls == Init /\ [][NextPolls]_vars

(***************************************************************************)
(* Claims about the trigger check                                          *)
(***************************************************************************)
\* The call just made on the mock client was checkBrakeScreen.
Checked == response.op = "checkBrakeScreen"

InterventionDay(v) == v.current_day >= 3 /\ v.current_day <= 5

\* current / baseline <= 0.8
RatioAtMost80(v) == v.hrv_current * 5 <= v.hrv_baseline_mean * 4

LastDecision == ls_decisions[Len(ls_decisions)]

\* The last decision recorded through the mock client is of type d.
LastDecisionIs(d) == ls_decisions # << >> /\ LastDecision.decision_type = d

\* The day of the cycle the app is on: the demo day in demo mode, the mock
\* client's otherwise.
DayOfCycle ==
    IF demoState.isDemoMode THEN demoState.currentDay
    ELSE getCurrentDay(now, cycleStartDate)

AutomaticPaths == {"poll", "recheck", "auto"}

\* C1: on days 1, 2 and 7 of the cycle no automatic path (the poll, the
\* delayed re-check, the demo auto-trigger) puts up the brake screen.
C1_SilentDays ==
    [][(/\ appState.screen # "brake"
        /\ appState'.screen = "brake"
        /\ shownBy' \in AutomaticPaths) => DayOfCycle' \notin {1, 2, 7}]_vars

\* C2: on days 3-5 a trigger check made while current/baseline > 0.8 returns
\* should_display = false.
C2_NoDropNoBrake ==
    (Checked /\ InterventionDay(response.value) /\ ~RatioAtMost80(response.value))
        => ~response.value.should_display

\* C3: on days 3-5, with no decision recorded and no cooling period, a
\* trigger check made while current/baseline <= 0.8 returns
\* should_display = true.
C3_DropTriggers ==
    (/\ Checked
     /\ InterventionDay(response.value)
     /\ RatioAtMost80(response.value)
     /\ ls_decisions = << >>
     /\ ~coolingPeriodActive) => response.value.should_display

\* C4: a trigger check made less than 20 minutes after the Delay decision
\* recorded last returns should_display = false.
C4_DelaySuppresses ==
    (/\ Checked
     /\ LastDecisionIs("Delay")
     /\ response.value.timestamp - LastDecision.timestamp < COOLING_MS)
        => ~response.value.should_display

\* C5: once 20 minutes have passed since the Delay decision recorded last,
\* a trigger check made on days 3-5 while current/baseline <= 0.8 and no
\* Proceed is on record returns should_display = true.
C5_DelayExpires ==
    (/\ Checked
     /\ LastDecisionIs("Delay")
     /\ \A i \in 1..Len(ls_decisions) : ls_decisions[i].decision_type = "Delay"
     /\ response.value.timestamp - LastDecision.timestamp >= COOLING_MS
     /\ InterventionDay(response.value)
     /\ RatioAtMost80(response.value)) => response.value.should_display

\* C6: a trigger check made at the very instant of the Proceed decision
\* recorded last, so with nothing changed since, returns should_display =
\* false.
C6_ProceedLocks ==
    (/\ Checked
     /\ LastDecisionIs("Proceed")
     /\ response.value.timestamp = LastDecision.timestamp)
        => ~response.value.should_display

\* C7: a trigger check made later than the Proceed decision recorded last,
\* on days 3-5 while current/baseline <= 0.8 (the conditions of another
\* event), returns should_display = true.
C7_LockIsPerEvent ==
    (/\ Checked
     /\ LastDecisionIs("Proceed")
     /\ response.value.timestamp > LastDecision.timestamp
     /\ InterventionDay(response.value)
     /\ RatioAtMost80(response.value)) => response.value.should_display

(***************************************************************************)
(* Claims about recordDecision and recordReflection                        *)
(***************************************************************************)
\* C8: recordDecision returns a re_trigger_time exactly for Delay, and it is
\* the timestamp of the recorded decision plus 20 minutes.
C8_ReTriggerTime ==
    response.op = "recordDecision" =>
        /\ response.value.has_re_trigger_time <=> response.value.decision_type = "Delay"
        /\ response.value.timestamp = LastDecision.timestamp
        /\ response.value.has_re_trigger_time =>
               response.value.re_trigger_time = response.value.timestamp + COOLING_MS

\* C9: a recordDecision call appends exactly one record, the decision it
\* reports, to the decision log and leaves the earlier records, the
\* reflection log, the cycle start and the user alone.
C9_RecordDecisionAppendsOnly ==
    [][response'.op = "recordDecision" =>
          /\ Len(ls_decisions') = Len(ls_decisions) + 1
          /\ SubSeq(ls_decisions', 1, Len(ls_decisions)) = ls_decisions
          /\ ls_decisions'[Len(ls_decisions')] =
                 [timestamp |-> response'.value.timestamp,
                  decision_type |-> response'.value.decision_type]
          /\ UNCHANGED << ls_reflections, ls_cycle_start, cycleStartDate,
                          ls_user_id, userId, lastBrakeTime >>]_vars

\* A second decision has just been recorded, after a reflection.
C9_Witness ==
    /\ response.op = "recordDecision"
    /\ Len(ls_decisions) = 2
    /\ Len(ls_reflections) = 1

\* C10: a recordReflection call starts a new cycle at the time of the call,
\* with no cooling period and no decision lock, and the cycle state it
\* leaves is the one any other answer would have left.
C10_ReflectionResetsCycle ==
    [][response'.op = "recordReflection" =>
          /\ now <= cycleStartDate' /\ cycleStartDate' <= now'
          /\ now <= ls_cycle_start' /\ ls_cycle_start' <= now'
          /\ getCurrentDay(now', cycleStartDate') = 1
          /\ ~coolingPeriodActive'
          /\ ~getStateResult(now', cycleStartDate', coolingPeriodActive').decision_locked
          /\ \A answer \in Responses :
                recordReflectionCycle(answer, ls_cycle_start', cycleStartDate') =
                   [ls_cycle_start |-> ls_cycle_start',
                    cycleStartDate |-> cycleStartDate',
                    coolingPeriodActive |-> coolingPeriodActive']]_vars

\* "Skip" has just been recorded, twenty minutes or more into a session in
\* which a decision was recorded, and the cycle that was running is over.
C10_Witness ==
    /\ response.op = "recordReflection"
    /\ response.value.response = "Skip"
    /\ ls_decisions # << >>
    /\ now >= LoadTime + ClockStep
    /\ cycleStartDate >= LoadTime + ClockStep

(***************************************************************************)
(* Claims about the cycle                                                  *)
(***************************************************************************)
\* The step in which the answer given on the reflection screen takes the
\* screen down: handleReflection, followed by the check the monitoring
\* effect makes at once.
ReflectionAnswered ==
    /\ mounted
    /\ appState.screen = "reflection"
    /\ \/ appState'.screen = "void"
       \/ appState'.screen = "brake" /\ shownBy' = "poll"

\* C11: once the user has answered the reflection screen, the cycle state
\* the app reads is on day 1 (getState reports current_day = 1, and so does
\* the app state) and the trigger check that follows does not put up the
\* brake screen.
C11_AnswerStartsDayOne ==
    [][ReflectionAnswered =>
          /\ getStateResult(now', cycleStartDate', coolingPeriodActive').current_day = 1
          /\ appState'.currentDay = 1
          /\ appState'.screen # "brake"]_vars

\* Whole days elapsed since the cycle start the client holds.
ElapsedDays == (now - cycleStartDate) \div MS_PER_DAY

\* C12: at any time not before the cycle start, the current day is
\* floor((now - start) / one day) mod 7 + 1, an integer from 1 to 7: there
\* is no day 8, and after seven elapsed days the cycle is on day 1 again.
\* getState and a trigger check just made report that day.
C12_DayInCycle ==
    now >= cycleStartDate =>
        /\ getCurrentDay(now, cycleStartDate) = (ElapsedDays % 7) + 1
        /\ getCurrentDay(now, cycleStartDate) \in 1..7
        /\ ElapsedDays = 7 => getCurrentDay(now, cycleStartDate) = 1
        /\ getStateResult(now, cycleStartDate, coolingPeriodActive).current_day
              = (ElapsedDays % 7) + 1
        /\ (Checked /\ response.value.timestamp = now) =>
              response.value.current_day = (ElapsedDays % 7) + 1

\* A trigger check has just been made seven whole days after the cycle start
\* and reported day 1.
C12_Witness ==
    /\ now >= cycleStartDate
    /\ ElapsedDays = 7
    /\ Checked
    /\ response.value.timestamp = now
    /\ response.value.current_day = 1

\* The phase of the cycle that a component's name for it stands for.
PhaseNamed(name) ==
    CASE name \in {"TOTAL_SILENCE", "Total Silence", "phase-silence"} -> "Silence"
      [] name \in {"INTERVENTION_LOGIC", "Intervention Logic", "phase-intervention"}
            -> "InterventionLogic"
      [] name \in {"REFLECTION", "Reflection", "phase-reflection"} -> "Reflection"
      [] OTHER -> name

\* C13: on the day the app is on, the mock client (getCurrentPhase), the
\* demo context (setDay) and the timeline of the demo controls name the same
\* phase: Silence on days 1-2, InterventionLogic on days 3-5, Reflection on
\* day 7 and only then, and on day 6 Silence or InterventionLogic.
C13_OnePhaseTable ==
    mounted =>
        LET day == appState.currentDay
            client == PhaseNamed(PhaseOfDay(day))
            demo == PhaseNamed(setDay(demoState, day).phase)
            timeline == PhaseNamed(timelineClass(day))
        IN /\ client = demo
           /\ demo = timeline
           /\ day \in 1..2 => client = "Silence"
           /\ day \in 3..5 => client = "InterventionLogic"
           /\ day = 7 <=> client = "Reflection"
           /\ day = 6 => client \in {"Silence", "InterventionLogic"}

\* C14: the cycle start, in memory and in localStorage, changes only when a
\* user is first registered or a reflection is recorded: initialising the
\* app with a stored user, polling and brake decisions leave it as it is.
C14_CycleStartKept ==
    [][(cycleStartDate' # cycleStartDate \/ ls_cycle_start' # ls_cycle_start) =>
          \/ ls_user_id = NoUser /\ ls_user_id' # NoUser
          \/ Len(ls_reflections') > Len(ls_reflections)]_vars

(***************************************************************************)
(* Claims about rejected calls                                             *)
(***************************************************************************)
\* A trigger check has returned should_display = true and no decision has
\* been recorded after it.
TriggerActive ==
    /\ lastBrakeTime # 0
    /\ ls_decisions # << >> => LastDecision.timestamp <= lastBrakeTime

\* C15: a recordDecision call made while no trigger is active is rejected:
\* it appends no record and changes no state of the client.
C15_NoTriggerNoDecision ==
    [][(response'.op = "recordDecision" /\ ~TriggerActive) =>
          UNCHANGED << ls_decisions, ls_reflections, ls_cycle_start, cycleStartDate,
                       coolingPeriodActive, lastBrakeTime >>]_vars

\* C16: a recordReflection call made on a day other than day 7 is rejected:
\* it appends no record and does not restart the cycle.
C16_ReflectionOnDaySeven ==
    [][(response'.op = "recordReflection" /\ getCurrentDay(now, cycleStartDate) # 7) =>
          UNCHANGED << ls_reflections, ls_decisions, ls_cycle_start, cycleStartDate,
                       coolingPeriodActive, lastBrakeTime >>]_vars

(***************************************************************************)
(* Claims about the reflection screen and the polls                        *)
(***************************************************************************)
\* The local time t is between 09:00:00 and 09:04:59.
InReflectionWindow(t) == HourMinute(t) >= 9 * 60 /\ HourMinute(t) < 9 * 60 + 5

\* C17: the app puts up the reflection screen only when the current_day it
\* polls is 7 and the local time is between 09:00:00 and 09:04:59.
C17_ReflectionWindow ==
    [][(appState.screen # "reflection" /\ appState'.screen = "reflection") =>
          /\ getStateResult(now', cycleStartDate', coolingPeriodActive').current_day = 7
          /\ InReflectionWindow(now')]_vars

\* C18: a trigger check that follows another with the clock, the cycle
\* start, the decision log and the cooling period unchanged returns the same
\* should_display.
C18_CheckIdempotent ==
    [][(/\ Checked
        /\ response'.op = "checkBrakeScreen"
        /\ UNCHANGED << now, cycleStartDate, ls_decisions, ls_reflections,
                        coolingPeriodActive >>) =>
          response'.value.should_display = response.value.should_display]_vars

\* C19: a poll in which getState or checkBrakeScreen is rejected shows no
\* brake screen (the screen stays as it was) and leaves the cycle start, the
\* cooling period, lastBrakeTime and the decision and reflection logs
\* unchanged.
C19_FailedPollIsSilent ==
    [][response'.op = "checkState" =>
          /\ appState'.screen = appState.screen
          /\ shownBy' = shownBy
          /\ UNCHANGED << cycleStartDate, ls_cycle_start, coolingPeriodActive,
                          lastBrakeTime, ls_decisions, ls_reflections >>]_vars

\* The trigger check of a poll has just been rejected on the void screen on
\* one of days 3-5, the days on which a check can return should_display =
\* true, and the app holds the day getState reported before.
C19_Witness ==
    /\ response.op = "checkState"
    /\ response.rejected = "checkBrakeScreen"
    /\ appState.screen = "void"
    /\ getCurrentDay(now, cycleStartDate) \in 3..5
    /\ appState.currentDay = getCurrentDay(now, cycleStartDate)

(***************************************************************************)
(* Claims about the persisted records                                      *)
(***************************************************************************)
\* C20: every record of the decision log has exactly the fields timestamp,
\* decision type and day, and every record of the reflection log exactly
\* timestamp, response and the start of the cycle it closes: no HRV value,
\* event id or title among them.
C20_RecordFields ==
    /\ \A i \in 1..Len(ls_decisions) :
          DOMAIN ls_decisions[i] = {"timestamp", "decision_type", "day"}
    /\ \A i \in 1..Len(ls_reflections) :
          DOMAIN ls_reflections[i] = {"timestamp", "response", "cycleStartDate"}

(***************************************************************************)
(* Claims about the brake screen                                           *)
(***************************************************************************)
\* onDecision has just run for a click.
Decided == response.op = "onDecision"

\* recordDecision of a click has just been rejected.
ClickRejected == response.op = "handleClick"

\* C21: onDecision(d) runs only for a click on d whose recordDecision call
\* the HTTP client could carry out, and it ends that call; a click whose
\* call is rejected gets no onDecision: the screen stays as it is, no
\* re-check is scheduled, no intervention is logged, and the buttons of the
\* brake screen of that click are enabled again.
C21_DecisionAfterRecord ==
    [][/\ Decided' =>
             /\ httpUserId # NoUser
             /\ \E i \in 1..Len(pendingDecisions) :
                   /\ pendingDecisions[i].decision = response'.decision
                   /\ pendingDecisions' = Unmounted(Without(pendingDecisions, i))
       /\ Len(delayTimers') > Len(delayTimers) =>
             Decided' /\ response'.decision = "Delay"
       /\ ClickRejected' =>
             /\ appState'.screen = appState.screen
             /\ delayTimers' = delayTimers
             /\ demoState' = demoState
             /\ \E i \in 1..Len(pendingDecisions) :
                   /\ pendingDecisions[i] = response'.rejected
                   /\ pendingDecisions' = Without(pendingDecisions, i)
             /\ response'.rejected.live => appState'.screen = "brake" /\ ~isSubmitting'
      ]_vars

\* The call of a click on Delay has just been rejected for a user the HTTP
\* client knows, on a brake screen that is still on display, its buttons
\* enabled again.
C21_Witness ==
    /\ ClickRejected
    /\ response.rejected.decision = "Delay"
    /\ response.rejected.live
    /\ httpUserId # NoUser
    /\ appState.screen = "brake"
    /\ ~isSubmitting
    /\ delayTimers = << >>

\* The recordDecision calls in flight that the brake screen on display sent.
LiveCalls == SelectSeq(pendingDecisions, LAMBDA p : p.live)

C23_SkewClampsToDayOne ==
    now < cycleStartDate =>
        /\ getCurrentDay(now, cycleStartDate) = 1
        /\ getCurrentPhase(now, cycleStartDate) = "TOTAL_SILENCE"
        /\ getStateResult(now, cycleStartDate, coolingPeriodActive).current_day = 1
        /\ (Checked /\ response.value.timestamp = now) =>
              response.value.current_day = 1

\* The client has just been constructed by a reload.
Restarted == response.op = "constructor"

\* C24: a reload less than 20 minutes after the Delay recorded last leaves
\* the cooling period in force: the client constructed from localStorage
\* reports it as active, and no trigger check made at that point returns
\* should_display = true.
C24_CoolingSurvivesRestart ==
    (/\ Restarted
     /\ LastDecisionIs("Delay")
     /\ now - LastDecision.timestamp < COOLING_MS) =>
        /\ getStateResult(now, cycleStartDate, coolingPeriodActive).cooling_period_active
        /\ \A r \in RandomDraws, h \in HrvDraws :
              ~checkBrakeScreenResult(now, r, h, cycleStartDate).should_display

C26_AutoTriggerRechecks ==
    [][(/\ appState.screen # "brake"
        /\ appState'.screen = "brake"
        /\ shownBy' = "auto") => autoTriggerCondition(appState, demoState)]_vars

\* The step in which the oldest 20-minute timeout of handleBrakeDecision
\* fires.
RecheckFires == delayTimers # << >> /\ delayTimers' = Tail(delayTimers)

\* C27: the delayed re-check switches to the brake screen only from the void
\* screen, never over a reflection or onboarding screen shown in the
\* meantime, and it tests the screen as it is when its result arrives: with
\* should_display = true (lastBrakeTime is stamped) on the void screen it
\* puts up the brake screen.
C27_ScreenWhenApplied ==
    [][/\ (/\ appState.screen # "brake"
           /\ appState'.screen = "brake"
           /\ shownBy' = "recheck") => appState.screen = "void"
       /\ (/\ RecheckFires
           /\ appState.screen = "void"
           /\ lastBrakeTime # now
           /\ lastBrakeTime' = now) => appState'.screen = "brake"]_vars

\* C28: the screen changes to the reflection screen only from the void
\* screen: a brake screen on display is never replaced by it.
C28_ReflectionOnlyFromVoid ==
    [][(appState.screen # "reflection" /\ appState'.screen = "reflection") =>
          appState.screen = "void"]_vars

\* C29: the cycle start the client holds in memory is the one persisted
\* under 'omtobe_cycle_start', after construction and after every call, so
\* the client a reload constructs is on the same day and in the same phase.
C29_MemoryIsPersisted ==
    /\ cycleStartDate = ls_cycle_start
    /\ LET reloaded == IF ls_cycle_start # NoTime THEN ls_cycle_start ELSE now
       IN /\ getCurrentDay(now, reloaded) = getCurrentDay(now, cycleStartDate)
          /\ getCurrentPhase(now, reloaded) = getCurrentPhase(now, cycleStartDate)

\* The step is a click on "Reset Demo".
ResetClicked == response' = [op |-> "resetDemo"]

\* C30: a click on "Reset Demo" puts the demo day at 1, the phase at Total
\* Silence, the HRV at normal, empties the active events and the
\* intervention history, and leaves isDemoMode as it was: still demo mode.
C30_ResetKeepsDemoMode ==
    [][ResetClicked =>
         /\ demoState'.currentDay = 1
         /\ demoState'.phase = "Total Silence"
         /\ demoState'.hrv.status = "normal"
         /\ demoState'.activeEvents = << >>
         /\ demoState'.interventionHistory = << >>
         /\ demoState'.isDemoMode = demoState.isDemoMode]_vars

====
